---- MODULE Spec2Model ----
(***************************************************************************)
(* Model of the manga downloader:                                          *)
(*   Spec        the image fetch loop of                                   *)
(*               MangaDownloader.download_chapter_images with its caller   *)
(*   SpecPdf     the page pass of PDFHandler.create_pdf, the geometry of   *)
(*               its canvases and the files it leaves                      *)
(*   SpecResize  PDFHandler._resize_image on its own                       *)
(*   SpecPost    post_process.main and the normalisation it calls          *)
(*   SpecMain    downloader.main's run over the chapters, in list mode and *)
(*               in auto-discovery mode                                    *)
(***************************************************************************)
EXTENDS Integers, Sequences, FiniteSets, TLC

(* ---- bounds of the model ---- *)
MaxRefs == 2        \* img tags in one chapter page
MaxKey == 1         \* largest numeric order value written in a tag
MaxImages == 5      \* image files handed to create_pdf

(* ---- characters of attribute strings: digits are 0..9 ---- *)
CharX == 10         \* a letter
CharDash == 11      \* '-'
CharSpace == 12     \* ' '

(* ---- program constants ---- *)
retry_count == 3

VARIABLES
    html,          \* the img tags of the chapter page, in document order
    images,        \* the sorted tag list (positions into html)
    index,         \* enumerate index of the for loop (0-based)
    attempt,       \* loop variable of the retry loop
    tries,         \* attempts made so far for the current ref
    sleeps,        \* delays slept so far for the current ref
    files,         \* temp directory: file name -> content
    image_paths,   \* list of file names being returned
    pc,            \* position in download_chapter_images / main
    pdfInput,      \* argument of the create_pdf call made by main, if any
    documents,     \* chapter documents written by main
    lastStep,      \* outcome of the attempt just made, "none" otherwise
    fetched,       \* one record per appended path: its name, ref and index
    dropped        \* indices whose attempts were all used up

VARIABLES
    pdf_paths,         \* create_pdf: the image files given, in order
    reverse_order,     \* PDFHandler options
    combine_portraits,
    add_buffer,
    i,                 \* create_pdf: pass index (0-based)
    processed_images,  \* create_pdf: pages built so far
    ppc,               \* create_pdf: position
    pdf_result,        \* create_pdf: return value
    out_doc,           \* the file at output_path: "absent" or its content
    temp_files         \* indices k whose {output_path}_temp_{k}.jpg exists

dlvars == <<html, images, index, attempt, tries, sleeps, files, image_paths,
            pc, pdfInput, documents, lastStep, fetched, dropped>>

\* the files at and beside output_path
pdfdisk == <<out_doc, temp_files>>

pdfvars == <<pdf_paths, reverse_order, combine_portraits, add_buffer, i,
             processed_images, ppc, pdf_result, pdfdisk>>

VARIABLES
    rz_img,            \* _resize_image: pixel size of the image given
    rz_single,         \* _resize_image: is_single_portrait
    rz_result          \* _resize_image: what it returned, if it has

rzvars == <<rz_img, rz_single, rz_result>>

VARIABLES
    post_docs,         \* post_process: the documents of the directory, by position
    orig_docs,         \* the documents as they were when the run began
    cur,               \* position of the document being processed (1-based)
    post_pc,           \* post_process: position
    replace_tries,     \* replacement attempts made for the current document
    temps,             \* positions whose temporary sibling file exists
    written,           \* positions for which a rebuilt document was written
    attempted,         \* positions whose document this run has opened
    reported,          \* failures reported by this run: position and cause
    run,               \* 1 in the first run over the directory, 2 in the second
    first_failed       \* positions reported as failed by the first run

postvars == <<post_docs, orig_docs, cur, post_pc, replace_tries, temps, written,
              attempted, reported, run, first_failed>>

VARIABLES
    run_mode,              \* main: "list" (args.url_text given) or "auto"
    urls,                  \* list mode: of each URL the text after 'chapter-'
    url_pos,               \* list mode: position of the URL being processed
    chapter_num,           \* auto mode: the chapter being processed
    end_chapter,           \* auto mode: args.end, 0 when not given
    main_pc,               \* main: position
    main_docs,             \* the file at each output path
    successful_downloads,  \* main: output paths of the documents made
    events,                \* what has happened to each chapter taken so far
    cleaned,               \* cleanup_temp_directory has been called
    summary                \* the final summary has been logged

mainvars == <<run_mode, urls, url_pos, chapter_num, end_chapter, main_pc,
              main_docs, successful_downloads, events, cleaned, summary>>

VARIABLES
    net_op,            \* the network operation in hand: "verify", "html", "image"
    net_timeout,       \* the timeout passed to session.get, 0 when none is
    net_elapsed,       \* seconds the request has been waiting
    net_silent,        \* the remote never answers this request
    net_img,           \* index of the image being downloaded (0-based)
    net_attempt,       \* attempt of the retry loop
    net_imgs           \* images of the chapter

netvars == <<net_op, net_timeout, net_elapsed, net_silent, net_img, net_attempt,
             net_imgs>>

vars == <<dlvars, pdfvars, rzvars, postvars, mainvars, netvars>>

\* what the steps of one part leave alone
outsideDl == <<pdfvars, rzvars, postvars, mainvars, netvars>>
outsidePdf == <<dlvars, rzvars, postvars, mainvars, netvars>>
outsideResize == <<dlvars, pdfvars, postvars, mainvars, netvars>>
outsidePost == <<dlvars, pdfvars, rzvars, mainvars, netvars>>
outsideMain == <<dlvars, pdfvars, rzvars, postvars, netvars>>
outsideNet == <<dlvars, pdfvars, rzvars, postvars, mainvars>>

\* no network operation is modelled
NetIdle ==
    /\ net_op = "idle"
    /\ net_timeout = 0
    /\ net_elapsed = 0
    /\ net_silent = FALSE
    /\ net_img = 0
    /\ net_attempt = 0
    /\ net_imgs = 0

\* main's run over the chapters is not modelled
MainIdle ==
    /\ run_mode = "none"
    /\ urls = <<>>
    /\ url_pos = 0
    /\ chapter_num = 0
    /\ end_chapter = 0
    /\ main_pc = "idle"
    /\ main_docs = <<>>
    /\ successful_downloads = <<>>
    /\ events = <<>>
    /\ cleaned = FALSE
    /\ summary = FALSE

\* post_process is not running
PostIdle ==
    /\ post_docs = <<>>
    /\ orig_docs = <<>>
    /\ cur = 0
    /\ post_pc = "idle"
    /\ replace_tries = 0
    /\ temps = {}
    /\ written = {}
    /\ attempted = {}
    /\ reported = {}
    /\ run = 0
    /\ first_failed = {}

\* _resize_image is not running
ResizeIdle ==
    /\ rz_img = [w |-> 1, h |-> 1]
    /\ rz_single = FALSE
    /\ rz_result = {}

(* ---------------- strings ---------------- *)

IsDigit(c) == c \in 0..9

\* str.strip(): remove leading and trailing whitespace
RECURSIVE LStrip(_)
LStrip(s) == IF s # <<>> /\ Head(s) = CharSpace THEN LStrip(Tail(s)) ELSE s

RECURSIVE RStrip(_)
RStrip(s) == IF s # <<>> /\ s[Len(s)] = CharSpace
             THEN RStrip(SubSeq(s, 1, Len(s) - 1)) ELSE s

Strip(s) == RStrip(LStrip(s))

\* str.split('-')[-1]: the part after the last dash
RECURSIVE LastDashPart(_)
LastDashPart(s) ==
    IF \E k \in 1..Len(s) : s[k] = CharDash
    THEN LastDashPart(Tail(s))
    ELSE s

\* int(s) accepts surrounding blanks, an optional sign and at least one digit
AllDigits(s) == s # <<>> /\ \A k \in 1..Len(s) : IsDigit(s[k])

IntParses(s) ==
    LET t == Strip(s)
    IN  IF t # <<>> /\ Head(t) = CharDash THEN AllDigits(Tail(t)) ELSE AllDigits(t)

RECURSIVE DigitsValue(_)
DigitsValue(s) == IF s = <<>> THEN 0
                  ELSE 10 * DigitsValue(SubSeq(s, 1, Len(s) - 1)) + s[Len(s)]

IntOf(s) ==
    LET t == Strip(s)
    IN  IF t # <<>> /\ Head(t) = CharDash THEN 0 - DigitsValue(Tail(t)) ELSE DigitsValue(t)

\* f'{index:03d}': at least three decimal digits, zero padded
RECURSIVE Digits(_)
Digits(n) == IF n < 10 THEN <<n>> ELSE Append(Digits(n \div 10), n % 10)

RECURSIVE ZeroPad(_, _)
ZeroPad(s, w) == IF Len(s) >= w THEN s ELSE ZeroPad(<<0>> \o s, w)


(* ---------------- tags ---------------- *)

\* tag.get(name, default)
Get(tag, name, default) == IF name \in DOMAIN tag THEN tag[name] ELSE default

\* the sort key expression of line 64, before int()
KeyString(tag) == Get(tag, "data-order", LastDashPart(Get(tag, "id", <<0>>)))

KeyParses(tag) == IntParses(KeyString(tag))

Key(tag) == IntOf(KeyString(tag))

\* line 69
ImgUrl(tag) == Strip(Get(tag, "src", Get(tag, "data-src", <<>>)))

\* variant: the name is the position in the output list
FileName_ByOutputPos(n) == ZeroPad(Digits(Len(image_paths)), 3)

\* variant: the name is the ordering key of the ref
FileName_ByKey(n) == ZeroPad(Digits(Key(html[images[n + 1]])), 3)

\* line 74: f'image-{index:03d}.jpg', the digits of the name
FileName(n) == ZeroPad(Digits(n), 3)


(* ---------------- inputs ---------------- *)

OrderAttrs ==
    {("data-order" :> <<k>>) : k \in 1..MaxKey}
    \cup {("id" :> <<CharX, CharDash, k>>) : k \in 1..MaxKey}
    \cup {<<>>}
    \cup {("data-order" :> <<CharX>>)}
    \cup {("id" :> <<CharX>>)}

SrcAttrs ==
    {("src" :> <<CharX>>), ("data-src" :> <<CharX>>), <<>>,
     ("src" :> <<CharSpace>>) @@ ("data-src" :> <<CharX>>)}

\* the tags a chapter page is drawn from: every order attribute with a plain
\* src, every src form without order attributes, and an ordered tag without URL
ImgTags ==
    {o @@ ("src" :> <<CharX>>) : o \in OrderAttrs}
    \cup SrcAttrs
    \cup {("data-order" :> <<MaxKey>>)}

SeqsUpTo(S, n) == UNION {[1..k -> S] : k \in 0..n}

(* ---------------- line 64: images.sort(key=...) ---------------- *)

\* list.sort is stable: an element goes after every element whose key is
\* not greater than its own.
\* variant: an element goes before elements of equal key
RECURSIVE InsertByKey_Unstable(_, _, _)
InsertByKey_Unstable(tags, p, sorted) ==
    IF sorted = <<>> THEN <<p>>
    ELSE IF Key(tags[Head(sorted)]) < Key(tags[p])
         THEN <<Head(sorted)>> \o InsertByKey_Unstable(tags, p, Tail(sorted))
         ELSE <<p>> \o sorted

RECURSIVE InsertByKey(_, _, _)
InsertByKey(tags, p, sorted) ==
    IF sorted = <<>> THEN <<p>>
    ELSE IF Key(tags[Head(sorted)]) <= Key(tags[p])
         THEN <<Head(sorted)>> \o InsertByKey(tags, p, Tail(sorted))
         ELSE <<p>> \o sorted

RECURSIVE SortFrom(_, _, _)
SortFrom(tags, p, sorted) ==
    IF p > Len(tags) THEN sorted
    ELSE SortFrom(tags, p + 1, InsertByKey(tags, p, sorted))

SortByKey(tags) == SortFrom(tags, 1, <<>>)

(* ---------------- helpers ---------------- *)

RECURSIVE Pow2(_)
Pow2(n) == IF n = 0 THEN 1 ELSE 2 * Pow2(n - 1)

Range(s) == {s[k] : k \in 1..Len(s)}

WriteFile(fs, name, content) ==
    [n \in DOMAIN fs \cup {name} |-> IF n = name THEN content ELSE fs[n]]

RemoveFiles(fs, names) == [n \in DOMAIN fs \ names |-> fs[n]]

\* the tag the for loop is at
CurTag == html[images[index + 1]]

FullSize == 2      \* bytes of a complete image body in the model
PartSize == 1      \* bytes left by a write that was cut short

FailKinds == {"transport_error", "bad_status", "not_image", "write_error", "empty_file"}

(* ---------------- download_chapter_images ---------------- *)

\* create_pdf is not running
PdfIdle ==
    /\ pdf_paths = <<>>
    /\ reverse_order = FALSE
    /\ combine_portraits = FALSE
    /\ add_buffer = FALSE
    /\ i = 0
    /\ processed_images = <<>>
    /\ ppc = "idle"
    /\ pdf_result = FALSE
    /\ out_doc = "absent"
    /\ temp_files = {}

DlInit ==
    /\ html \in SeqsUpTo(ImgTags, MaxRefs)
    /\ images = <<>>
    /\ index = 0
    /\ attempt = 0
    /\ tries = 0
    /\ sleeps = <<>>
    /\ files = <<>>
    /\ image_paths = <<>>
    /\ pc = "start"
    /\ pdfInput = [called |-> FALSE, paths |-> <<>>]
    /\ documents = {}
    /\ lastStep = "none"
    /\ fetched = <<>>
    /\ dropped = {}
    /\ PdfIdle
    /\ ResizeIdle
    /\ PostIdle
    /\ MainIdle
    /\ NetIdle

\* the retry loop's variables are dead outside of it: the next ref starts
\* from attempt 0 (line 76) with nothing tried and nothing slept
AttemptStateCleared ==
    /\ attempt' = 0
    /\ tries' = 0
    /\ sleeps' = <<>>
    /\ lastStep' = "none"

\* lines 59-61
NoImagesFound ==
    /\ pc = "start"
    /\ html = <<>>
    /\ pc' = "returned"
    /\ AttemptStateCleared
    /\ UNCHANGED <<html, images, index, files, image_paths, pdfInput, documents,
                   fetched, dropped, outsideDl>>

\* line 64 when int() raises ValueError for some tag: nothing catches it
SortRaises ==
    /\ pc = "start"
    /\ \E p \in 1..Len(html) : ~KeyParses(html[p])
    /\ pc' = "raised"
    /\ UNCHANGED <<html, images, index, attempt, tries, sleeps, files,
                   image_paths, pdfInput, documents, lastStep, fetched, dropped, outsideDl>>

\* lines 64-66
SortImages ==
    /\ pc = "start"
    /\ html # <<>>
    /\ \A p \in 1..Len(html) : KeyParses(html[p])
    /\ images' = SortByKey(html)
    /\ index' = 0
    /\ image_paths' = <<>>
    /\ pc' = "loop"
    /\ UNCHANGED <<html, attempt, tries, sleeps, files, pdfInput, documents,
                   lastStep, fetched, dropped, outsideDl>>

\* lines 69-72: no URL in the tag, continue
SkipNoUrl ==
    /\ pc = "loop"
    /\ index < Len(images)
    /\ ImgUrl(CurTag) = <<>>
    /\ index' = index + 1
    /\ AttemptStateCleared
    /\ UNCHANGED <<html, images, files, image_paths, pc, pdfInput, documents,
                   fetched, dropped, outsideDl>>

\* lines 69-76: enter the retry loop for this ref
BeginRef ==
    /\ pc = "loop"
    /\ index < Len(images)
    /\ ImgUrl(CurTag) # <<>>
    /\ AttemptStateCleared
    /\ pc' = "try"
    /\ UNCHANGED <<html, images, index, files, image_paths, pdfInput, documents,
                   fetched, dropped, outsideDl>>

\* what an attempt leaves at file_path (lines 85-86)
FilesAfter(kind) ==
    CASE kind = "ok" ->
            WriteFile(files, FileName(index), [bytes |-> FullSize, from |-> images[index + 1]])
      [] kind = "empty_file" ->
            WriteFile(files, FileName(index), [bytes |-> 0, from |-> images[index + 1]])
      [] kind = "write_error" ->
            WriteFile(files, FileName(index), [bytes |-> PartSize, from |-> images[index + 1]])
      [] OTHER -> files

\* variant: the backoff sleep is taken after the last attempt as well
AfterFailure_SleepAlways ==
    /\ sleeps' = Append(sleeps, Pow2(attempt))
    /\ IF attempt < retry_count - 1
       THEN /\ attempt' = attempt + 1
            /\ UNCHANGED <<pc, index, dropped>>
       ELSE /\ pc' = "loop"
            /\ index' = index + 1
            /\ dropped' = dropped \cup {index}
            /\ UNCHANGED attempt

\* variant: the last failure is re-raised out of the function
AfterFailure_Abort ==
    IF attempt < retry_count - 1
    THEN /\ sleeps' = Append(sleeps, Pow2(attempt))
         /\ attempt' = attempt + 1
         /\ UNCHANGED <<pc, index, dropped>>
    ELSE /\ pc' = "raised"
         /\ dropped' = dropped \cup {index}
         /\ UNCHANGED <<sleeps, attempt, index>>

\* lines 95-100: the except branch
AfterFailure ==
    IF attempt < retry_count - 1
    THEN /\ sleeps' = Append(sleeps, Pow2(attempt))
         /\ attempt' = attempt + 1
         /\ UNCHANGED <<pc, index, dropped>>
    ELSE /\ pc' = "loop"
         /\ index' = index + 1
         /\ dropped' = dropped \cup {index}
         /\ UNCHANGED <<sleeps, attempt>>

\* variant: the break is missing, the retry loop goes on
AfterSuccess_NoBreak ==
    /\ image_paths' = Append(image_paths, FileName(index))
    /\ fetched' = Append(fetched, [name |-> FileName(index), ref |-> images[index + 1],
                                   idx |-> index])
    /\ IF attempt < retry_count - 1
       THEN /\ attempt' = attempt + 1
            /\ UNCHANGED <<pc, index>>
       ELSE /\ pc' = "loop"
            /\ index' = index + 1
            /\ UNCHANGED attempt
    /\ UNCHANGED sleeps

\* lines 89-91: file verified, append and break
AfterSuccess ==
    /\ image_paths' = Append(image_paths, FileName(index))
    /\ fetched' = Append(fetched, [name |-> FileName(index), ref |-> images[index + 1],
                                   idx |-> index])
    /\ pc' = "loop"
    /\ index' = index + 1
    /\ UNCHANGED <<sleeps, attempt>>

\* lines 77-100: one pass through the retry loop body
AttemptFails(kind) ==
    /\ pc = "try"
    /\ kind \in FailKinds
    /\ tries' = tries + 1
    /\ files' = FilesAfter(kind)
    /\ lastStep' = kind
    /\ AfterFailure
    /\ UNCHANGED <<html, images, image_paths, pdfInput, documents, fetched, outsideDl>>

AttemptOk ==
    /\ pc = "try"
    /\ tries' = tries + 1
    /\ files' = FilesAfter("ok")
    /\ lastStep' = "ok"
    /\ AfterSuccess
    /\ UNCHANGED <<html, images, pdfInput, documents, dropped, outsideDl>>

\* lines 102-106
LoopEnd ==
    /\ pc = "loop"
    /\ index = Len(images)
    /\ pc' = "returned"
    /\ AttemptStateCleared
    /\ UNCHANGED <<html, images, index, files, image_paths, pdfInput, documents,
                   fetched, dropped, outsideDl>>

(* ---------------- main: what the caller does with the result ---------------- *)

\* variant: the emptiness test is missing, the document is assembled anyway
MainNoImages_Assembles(mode) ==
    /\ pc = "returned"
    /\ image_paths = <<>>
    /\ pdfInput' = [called |-> TRUE, paths |-> image_paths]
    /\ documents' = documents \cup {"chapter"}
    /\ pc' = "next_chapter"
    /\ UNCHANGED <<html, images, index, attempt, tries, sleeps, files,
                   image_paths, lastStep, fetched, dropped, outsideDl>>

\* downloader.py lines 91-93 (list mode) and 138-140 (auto-discovery mode)
MainNoImages(mode) ==
    /\ pc = "returned"
    /\ image_paths = <<>>
    /\ pc' = IF mode = "list" THEN "next_chapter" ELSE "halt"
    /\ UNCHANGED <<html, images, index, attempt, tries, sleeps, files,
                   image_paths, pdfInput, documents, lastStep, fetched, dropped, outsideDl>>

\* downloader.py lines 95-105 and 142-154; ok is what create_pdf returned
MainCreatePdf(mode, ok) ==
    /\ pc = "returned"
    /\ image_paths # <<>>
    /\ pdfInput' = [called |-> TRUE, paths |-> image_paths]
    /\ IF ok
       THEN /\ files' = RemoveFiles(files, Range(image_paths))
            /\ documents' = documents \cup {"chapter"}
            /\ pc' = "next_chapter"
       ELSE /\ pc' = IF mode = "list" THEN "next_chapter" ELSE "halt"
            /\ UNCHANGED <<files, documents>>
    /\ UNCHANGED <<html, images, index, attempt, tries, sleeps, image_paths,
                   lastStep, fetched, dropped, outsideDl>>

DlNext ==
    \/ NoImagesFound
    \/ SortRaises
    \/ SortImages
    \/ SkipNoUrl
    \/ BeginRef
    \/ \E kind \in FailKinds : AttemptFails(kind)
    \/ AttemptOk
    \/ LoopEnd
    \/ \E mode \in {"list", "auto"} : MainNoImages(mode)
    \/ \E mode \in {"list", "auto"}, ok \in BOOLEAN : MainCreatePdf(mode, ok)

Spec == DlInit /\ [][DlNext]_vars


(* ---------------- PDFHandler.create_pdf ---------------- *)

\* the download is not running
DlIdle ==
    /\ html = <<>>
    /\ images = <<>>
    /\ index = 0
    /\ attempt = 0
    /\ tries = 0
    /\ sleeps = <<>>
    /\ files = <<>>
    /\ image_paths = <<>>
    /\ pc = "idle"
    /\ pdfInput = [called |-> FALSE, paths |-> <<>>]
    /\ documents = {}
    /\ lastStep = "none"
    /\ fetched = <<>>
    /\ dropped = {}

\* image files: pixel size, and whether Image.open can read the file
ImageFiles ==
    {[w |-> 600, h |-> 900, readable |-> TRUE],
     [w |-> 800, h |-> 1000, readable |-> TRUE],
     [w |-> 900, h |-> 600, readable |-> TRUE],
     [w |-> 600, h |-> 600, readable |-> TRUE],
     [w |-> 600, h |-> 900, readable |-> FALSE]}

\* line 220 and line 157
IsPortrait(img) == img.w < img.h

(* ---- device profile "kindle_scribe" of config/device_config.json ---- *)
TARGET_WIDTH == 3048
TARGET_HEIGHT == 2160
PADDING == 20

RECURSIVE Gcd(_, _)
Gcd(a, b) == IF b = 0 THEN a ELSE Gcd(b, a % b)

RECURSIVE IsPow2(_)
IsPow2(n) == n = 1 \/ (n % 2 = 0 /\ IsPow2(n \div 2))

\* line 90: img.height / img.width is a double; it is the exact ratio when
\* the reduced denominator is a power of two, and a rounded one otherwise
ExactRatio(w, h) == IsPow2(w \div Gcd(w, h))

\* lines 91 and 96: int() of a product or quotient with the ratio, the exact
\* value being num / den.  int() truncates; with a rounded ratio a value
\* that is a whole number exactly can come out just below it
IntOfQuotient(num, den, exact) ==
    {num \div den} \cup
    (IF ~exact /\ num % den = 0 THEN {num \div den - 1} ELSE {})

\* lines 82-87
TargetWidth(is_single_portrait) ==
    IF is_single_portrait THEN TARGET_WIDTH \div 2
    ELSE (TARGET_WIDTH \div 2) - (PADDING * 2)

\* variant: the height is not limited to the canvas height
ResizeOutcomes_NoHeightLimit(w, h, is_single_portrait) ==
    {[w |-> TargetWidth(is_single_portrait), h |-> new_height] :
        new_height \in IntOfQuotient(TargetWidth(is_single_portrait) * h, w,
                                     ExactRatio(w, h))}

\* lines 82-101: the sizes _resize_image can give an image of w x h pixels
ResizeOutcomes(w, h, is_single_portrait) ==
    LET target_width == TargetWidth(is_single_portrait)
        exact == ExactRatio(w, h)
    IN  UNION {IF new_height > TARGET_HEIGHT
               THEN {[w |-> new_width, h |-> TARGET_HEIGHT] :
                        new_width \in IntOfQuotient(TARGET_HEIGHT * w, h, exact)}
               ELSE {[w |-> target_width, h |-> new_height]} :
               new_height \in IntOfQuotient(target_width * h, w, exact)}

\* lines 103-111: the canvas of a single portrait and where the image goes
CenterOnCanvas(size) ==
    [canvas_w |-> TARGET_WIDTH, canvas_h |-> TARGET_HEIGHT,
     x |-> (TARGET_WIDTH - size.w) \div 2,
     y |-> (TARGET_HEIGHT - size.h) \div 2,
     w |-> size.w, h |-> size.h]

\* _resize_image on an image file of the pass; the sizes of ImageFiles have
\* one outcome each
ResizeImage(img, is_single_portrait) ==
    CHOOSE size \in ResizeOutcomes(img.w, img.h, is_single_portrait) : TRUE

\* every size of ImageFiles has one outcome where the pass resizes it: any
\* image for half a canvas, a portrait also as a single one
OneOutcomePerImageFile ==
    \A img \in ImageFiles : \A is_single_portrait \in BOOLEAN :
        (is_single_portrait => img.w < img.h) =>
            Cardinality(ResizeOutcomes(img.w, img.h, is_single_portrait)) = 1

\* lines 135-136 and 209, line 107: the x coordinate of a paste
SlotX(slot, w) ==
    CASE slot = "left" -> PADDING
      [] slot = "right" -> TARGET_WIDTH \div 2 + PADDING
      [] slot = "center" -> (TARGET_WIDTH - w) \div 2

\* lines 131-132, 210 and 108: the rectangle a paste covers on the canvas
PasteBox(paste) ==
    LET size == ResizeImage(pdf_paths[paste.img], paste.slot = "center")
    IN  [x |-> SlotX(paste.slot, size.w),
         y |-> (TARGET_HEIGHT - size.h) \div 2,
         w |-> size.w, h |-> size.h]

\* a page is either a white canvas with images pasted on it, saved as JPEG
\* (_save_temp_image), or the bytes of a source file
CanvasPage(pastes) == [kind |-> "canvas", pastes |-> pastes]

\* variant: the file is decoded and saved again as a canvas page
RawPage_Reencoded(n) == [kind |-> "canvas", pastes |-> <<[img |-> n, slot |-> "center"]>>]

\* lines 228-229: img_file.read(), the bytes of source file n as they are
RawPage(n) == [kind |-> "raw", pastes |-> <<[img |-> n, slot |-> "file"]>>]

\* lines 115-147: _combine_portrait_images on images n1 and n2 (1-based)
CombinePortraitImages(n1, n2) ==
    LET default == <<[img |-> n1, slot |-> "left"], [img |-> n2, slot |-> "right"]>>
    IN  IF reverse_order
        THEN default \o <<[img |-> n2, slot |-> "left"], [img |-> n1, slot |-> "right"]>>
        ELSE default

\* lines 70-113 with is_single_portrait: the image centred on a full canvas
ResizeSinglePortrait(n) == <<[img |-> n, slot |-> "center"]>>

\* variant: the pair does not skip the second image
ProcessPortraitImages_NoSkip(k) ==
    IF k + 1 < Len(pdf_paths) /\ IsPortrait(pdf_paths[k + 2])
    THEN [pages |-> <<CanvasPage(CombinePortraitImages(k + 1, k + 2))>>, next |-> k + 1]
    ELSE [pages |-> <<CanvasPage(ResizeSinglePortrait(k + 1))>>, next |-> k + 1]

\* variant: a portrait without a portrait successor produces no page
ProcessPortraitImages_DropsSingle(k) ==
    IF k + 1 < Len(pdf_paths) /\ IsPortrait(pdf_paths[k + 2])
    THEN [pages |-> <<CanvasPage(CombinePortraitImages(k + 1, k + 2))>>, next |-> k + 2]
    ELSE [pages |-> <<>>, next |-> k + 1]

\* variant: a pair advances the index by one only
ProcessPortraitImages_PairAdvancesOne(k) ==
    IF k + 1 < Len(pdf_paths) /\ IsPortrait(pdf_paths[k + 2])
    THEN [pages |-> <<CanvasPage(CombinePortraitImages(k + 1, k + 2))>>, next |-> k + 1]
    ELSE [pages |-> <<CanvasPage(ResizeSinglePortrait(k + 1))>>, next |-> k + 1]

\* lines 149-165: _process_portrait_images at 0-based index k, all files readable
ProcessPortraitImages(k) ==
    IF k + 1 < Len(pdf_paths) /\ IsPortrait(pdf_paths[k + 2])
    THEN [pages |-> <<CanvasPage(CombinePortraitImages(k + 1, k + 2))>>, next |-> k + 2]
    ELSE [pages |-> <<CanvasPage(ResizeSinglePortrait(k + 1))>>, next |-> k + 1]

PdfInit ==
    /\ DlIdle
    /\ ResizeIdle
    /\ PostIdle
    /\ MainIdle
    /\ NetIdle
    /\ pdf_paths \in SeqsUpTo(ImageFiles, MaxImages)
    /\ reverse_order \in BOOLEAN
    /\ combine_portraits \in BOOLEAN
    /\ add_buffer \in BOOLEAN
    /\ i = 0
    /\ processed_images = <<>>
    /\ ppc = "start"
    /\ pdf_result = FALSE
    /\ out_doc = "absent"
    /\ temp_files = {}

\* lines 191-193
PdfNoImages ==
    /\ ppc = "start"
    /\ pdf_paths = <<>>
    /\ pdf_result' = FALSE
    /\ ppc' = "done"
    /\ UNCHANGED <<pdf_paths, reverse_order, combine_portraits, add_buffer, i,
                   processed_images, pdfdisk, outsidePdf>>

\* lines 195-199
PdfBegin ==
    /\ ppc = "start"
    /\ pdf_paths # <<>>
    /\ processed_images' = <<>>
    /\ i' = 0
    /\ ppc' = IF add_buffer THEN "buffer" ELSE "pass"
    /\ UNCHANGED <<pdf_paths, reverse_order, combine_portraits, add_buffer,
                   pdf_result, pdfdisk, outsidePdf>>

\* variant: the index is not advanced past the first image
BufferPage_IndexStays ==
    /\ ppc = "buffer"
    /\ pdf_paths[1].readable
    /\ processed_images' = Append(processed_images,
          CanvasPage(<<[img |-> 1, slot |-> IF reverse_order THEN "left" ELSE "right"]>>))
    /\ i' = i
    /\ ppc' = "pass"
    /\ UNCHANGED <<pdf_paths, reverse_order, combine_portraits, add_buffer,
                   pdf_result, pdfdisk, outsidePdf>>

\* lines 202-214: the first image alone in one half of a canvas
BufferPage ==
    /\ ppc = "buffer"
    /\ pdf_paths[1].readable
    /\ processed_images' = Append(processed_images,
          CanvasPage(<<[img |-> 1, slot |-> IF reverse_order THEN "left" ELSE "right"]>>))
    /\ i' = i + 1
    /\ ppc' = "pass"
    /\ UNCHANGED <<pdf_paths, reverse_order, combine_portraits, add_buffer,
                   pdf_result, pdfdisk, outsidePdf>>

\* line 203 raises, caught at line 241
BufferDecodeError ==
    /\ ppc = "buffer"
    /\ ~pdf_paths[1].readable
    /\ pdf_result' = FALSE
    /\ ppc' = "done"
    /\ UNCHANGED <<pdf_paths, reverse_order, combine_portraits, add_buffer, i,
                   processed_images, pdfdisk, outsidePdf>>

\* lines 217-225: a portrait image with combining enabled
PassPortrait ==
    /\ ppc = "pass"
    /\ i < Len(pdf_paths)
    /\ pdf_paths[i + 1].readable
    /\ combine_portraits /\ IsPortrait(pdf_paths[i + 1])
    /\ i + 1 < Len(pdf_paths) => pdf_paths[i + 2].readable
    /\ processed_images' = processed_images \o ProcessPortraitImages(i).pages
    /\ i' = ProcessPortraitImages(i).next
    /\ UNCHANGED <<pdf_paths, reverse_order, combine_portraits, add_buffer, ppc,
                   pdf_result, pdfdisk, outsidePdf>>

\* lines 227-230: landscape, or combining disabled: the file's bytes
PassRaw ==
    /\ ppc = "pass"
    /\ i < Len(pdf_paths)
    /\ pdf_paths[i + 1].readable
    /\ ~(combine_portraits /\ IsPortrait(pdf_paths[i + 1]))
    /\ processed_images' = Append(processed_images, RawPage(i + 1))
    /\ i' = i + 1
    /\ UNCHANGED <<pdf_paths, reverse_order, combine_portraits, add_buffer, ppc,
                   pdf_result, pdfdisk, outsidePdf>>

\* line 219 or line 156 raises, caught at lines 232-234
PassDecodeError ==
    /\ ppc = "pass"
    /\ i < Len(pdf_paths)
    /\ \/ ~pdf_paths[i + 1].readable
       \/ /\ combine_portraits /\ IsPortrait(pdf_paths[i + 1])
          /\ i + 1 < Len(pdf_paths)
          /\ ~pdf_paths[i + 2].readable
    /\ pdf_result' = FALSE
    /\ ppc' = "done"
    /\ UNCHANGED <<pdf_paths, reverse_order, combine_portraits, add_buffer, i,
                   processed_images, pdfdisk, outsidePdf>>

\* line 213, 159 or 164: _save_temp_image raises at index i.  img.save at
\* line 170 may or may not have made the temp file by then; when line 171,
\* 172 or 173 raises the file is there, and nothing removes it
SaveTempError(left) ==
    /\ \/ ppc = "buffer" /\ pdf_paths[1].readable
       \/ /\ ppc = "pass"
          /\ i < Len(pdf_paths)
          /\ pdf_paths[i + 1].readable
          /\ combine_portraits /\ IsPortrait(pdf_paths[i + 1])
          /\ i + 1 < Len(pdf_paths) => pdf_paths[i + 2].readable
    /\ temp_files' = IF left THEN temp_files \cup {i} ELSE temp_files
    /\ pdf_result' = FALSE
    /\ ppc' = "done"
    /\ UNCHANGED <<pdf_paths, reverse_order, combine_portraits, add_buffer, i,
                   processed_images, out_doc, outsidePdf>>

WriteOutcomes == {"ok", "open_fails", "convert_fails", "write_fails"}

\* lines 237-238: open(output_path, 'wb') makes the file, or empties it,
\* before img2pdf.convert runs inside the with block
DocAfter(outcome) ==
    CASE outcome = "ok" -> "complete"
      [] outcome = "open_fails" -> out_doc
      [] outcome = "convert_fails" -> "empty"
      [] outcome = "write_fails" -> "partial"

\* lines 236-243: the open, img2pdf.convert and the write
WritePdf(outcome) ==
    /\ ppc = "pass"
    /\ i >= Len(pdf_paths)
    /\ out_doc' = DocAfter(outcome)
    /\ pdf_result' = (outcome = "ok")
    /\ ppc' = "done"
    /\ UNCHANGED <<pdf_paths, reverse_order, combine_portraits, add_buffer, i,
                   processed_images, temp_files, outsidePdf>>

PdfNext ==
    \/ PdfNoImages
    \/ PdfBegin
    \/ BufferPage
    \/ BufferDecodeError
    \/ PassPortrait
    \/ PassRaw
    \/ PassDecodeError
    \/ \E left \in BOOLEAN : SaveTempError(left)
    \/ \E outcome \in WriteOutcomes : WritePdf(outcome)

SpecPdf == PdfInit /\ [][PdfNext]_vars

(* ---------------- PDFHandler._resize_image on its own ---------------- *)

MaxSide == 12       \* largest width and height of the small source images

\* the source sizes tried: every small size, the 600 x 900 page, and 14 x 17
\* for which int(1484 * (17 / 14)) is 1801 though 1484 * 17 / 14 is 1802
SourceSizes ==
    {[w |-> w, h |-> h] : w \in 1..MaxSide, h \in 1..MaxSide}
        \cup {[w |-> 600, h |-> 900], [w |-> 14, h |-> 17]}

ResizeInit ==
    /\ DlIdle
    /\ PdfIdle
    /\ PostIdle
    /\ MainIdle
    /\ NetIdle
    /\ rz_img \in SourceSizes
    /\ rz_single \in BOOLEAN
    /\ rz_result = {}

\* lines 70-113: one call; the result is the resized image, or with
\* is_single_portrait the canvas it is centred on
ResizeCall ==
    /\ rz_result = {}
    /\ \E size \in ResizeOutcomes(rz_img.w, rz_img.h, rz_single) :
          rz_result' = {IF rz_single THEN CenterOnCanvas(size)
                        ELSE [canvas_w |-> size.w, canvas_h |-> size.h,
                              x |-> 0, y |-> 0, w |-> size.w, h |-> size.h]}
    /\ UNCHANGED <<rz_img, rz_single, outsideResize>>

ResizeNext == ResizeCall

SpecResize == ResizeInit /\ [][ResizeNext]_vars

(* ---------------- post_process.main and PDFHandler.post_processing ---------------- *)

MaxDocs == 2        \* documents in the directory
MaxPages == 1       \* pages of one document
replace_retries == 3

\* a page: its width and height as read from the document, and the angle
\* its content has been turned by
PageKinds ==
    {[w |-> 2160, h |-> 3048, rot |-> 0],
     [w |-> 3048, h |-> 2160, rot |-> 0],
     [w |-> 2160, h |-> 2160, rot |-> 0]}

\* a document: its pages, or a file that cannot be read as a document.
\* The documents tried: every one of up to MaxPages pages, the one with a
\* 2160 x 3048 and a 3048 x 2160 page, and a malformed one
Documents ==
    {[pages |-> pages, malformed |-> FALSE] :
        pages \in SeqsUpTo(PageKinds, MaxPages) \ {<<>>}}
    \cup {[pages |-> <<[w |-> 2160, h |-> 3048, rot |-> 0],
                       [w |-> 3048, h |-> 2160, rot |-> 0]>>,
           malformed |-> FALSE]}
    \cup {[pages |-> <<>>, malformed |-> TRUE]}

\* variant: the page is marked as turned, the width and height read from
\* it stay as they were
RotatePage_KeepsGeometry(page) ==
    [w |-> page.w, h |-> page.h, rot |-> (page.rot + 90) % 360]

\* a page turned by 90 degrees, always the same way
RotatePage(page) ==
    [w |-> page.h, h |-> page.w, rot |-> (page.rot + 90) % 360]

NeedsRotation(page) == page.w > page.h

\* variant: every page is turned
Rebuild_TurnsAll(doc) ==
    [doc EXCEPT !.pages = [k \in 1..Len(doc.pages) |-> RotatePage(doc.pages[k])]]

\* the rebuilt document: the pages wider than high turned, the others as
\* they are
Rebuild(doc) ==
    [doc EXCEPT !.pages =
        [k \in 1..Len(doc.pages) |->
            IF NeedsRotation(doc.pages[k]) THEN RotatePage(doc.pages[k])
            ELSE doc.pages[k]]]

AnyPageNeedsRotation(doc) ==
    \E k \in 1..Len(doc.pages) : NeedsRotation(doc.pages[k])

PostInit ==
    /\ DlIdle
    /\ PdfIdle
    /\ ResizeIdle
    /\ MainIdle
    /\ NetIdle
    /\ post_docs \in SeqsUpTo(Documents, MaxDocs)
    /\ orig_docs = post_docs
    /\ cur = 0
    /\ post_pc = "main"
    /\ replace_tries = 0
    /\ temps = {}
    /\ written = {}
    /\ attempted = {}
    /\ reported = {}
    /\ run = 1
    /\ first_failed = {}

\* post_process.py lines 39-43: no document in the directory
PostNoFiles ==
    /\ post_pc = "main"
    /\ post_docs = <<>>
    /\ post_pc' = "done"
    /\ UNCHANGED <<post_docs, orig_docs, cur, replace_tries, temps, written,
                   attempted, reported, run, first_failed, outsidePost>>

\* post_process.py lines 45-57: the documents are listed and the directory
\* is handed to post_processing
PostBegin ==
    /\ post_pc = "main"
    /\ post_docs # <<>>
    /\ cur' = 1
    /\ post_pc' = "doc"
    /\ UNCHANGED <<post_docs, orig_docs, replace_tries, temps, written,
                   attempted, reported, run, first_failed, outsidePost>>

\* variant: a document that fails ends the run
PostFailed_EndsRun(why) ==
    /\ reported' = reported \cup {[pos |-> cur, why |-> why]}
    /\ attempted' = attempted \cup {cur}
    /\ cur' = cur
    /\ post_pc' = "done"
    /\ replace_tries' = 0

\* the current document has failed: it is reported and the next one is taken
PostFailed(why) ==
    /\ reported' = reported \cup {[pos |-> cur, why |-> why]}
    /\ attempted' = attempted \cup {cur}
    /\ cur' = cur + 1
    /\ post_pc' = "doc"
    /\ replace_tries' = 0

\* the current document is finished without failure
PostFinished ==
    /\ attempted' = attempted \cup {cur}
    /\ cur' = cur + 1
    /\ post_pc' = "doc"
    /\ replace_tries' = 0
    /\ UNCHANGED reported

\* the document cannot be opened: it is malformed, or locked
PostOpenFails(locked) ==
    /\ post_pc = "doc"
    /\ cur <= Len(post_docs)
    /\ post_docs[cur].malformed \/ locked
    /\ PostFailed("open")
    /\ UNCHANGED <<post_docs, orig_docs, temps, written, run, first_failed,
                   outsidePost>>

\* no page is wider than high: nothing is written
PostNoRotation ==
    /\ post_pc = "doc"
    /\ cur <= Len(post_docs)
    /\ ~post_docs[cur].malformed
    /\ ~AnyPageNeedsRotation(post_docs[cur])
    /\ PostFinished
    /\ UNCHANGED <<post_docs, orig_docs, temps, written, run, first_failed,
                   outsidePost>>

\* the rebuilt document is written to the temporary sibling; when the
\* write fails what was written of it is removed
PostWriteTemp(ok) ==
    /\ post_pc = "doc"
    /\ cur <= Len(post_docs)
    /\ ~post_docs[cur].malformed
    /\ AnyPageNeedsRotation(post_docs[cur])
    /\ written' = written \cup {cur}
    /\ IF ok
       THEN /\ temps' = temps \cup {cur}
            /\ post_pc' = "replace"
            /\ UNCHANGED <<cur, replace_tries, attempted, reported>>
       ELSE /\ PostFailed("write")
            /\ UNCHANGED temps
    /\ UNCHANGED <<post_docs, orig_docs, run, first_failed, outsidePost>>

\* variant: giving up leaves the temporary sibling where it is
PostGiveUp_LeavesTemp ==
    /\ PostFailed("busy")
    /\ UNCHANGED <<temps, post_docs>>

\* the replacement has been tried replace_retries times: the temporary
\* sibling is removed and the document is reported
PostGiveUp ==
    /\ temps' = temps \ {cur}
    /\ PostFailed("busy")
    /\ UNCHANGED post_docs

\* one try to put the temporary sibling in the place of the document; busy
\* is the transient "file busy" condition
PostReplace(busy) ==
    /\ post_pc = "replace"
    /\ IF ~busy
       THEN /\ post_docs' = [post_docs EXCEPT ![cur] = Rebuild(post_docs[cur])]
            /\ temps' = temps \ {cur}
            /\ PostFinished
       ELSE IF replace_tries + 1 < replace_retries
       THEN /\ replace_tries' = replace_tries + 1
            /\ UNCHANGED <<post_docs, temps, cur, post_pc, attempted, reported>>
       ELSE PostGiveUp
    /\ UNCHANGED <<orig_docs, written, run, first_failed, outsidePost>>

\* post_process.py lines 58-60: post_processing has gone through the directory
PostEnd ==
    /\ post_pc = "doc"
    /\ cur > Len(post_docs)
    /\ post_pc' = "done"
    /\ UNCHANGED <<post_docs, orig_docs, cur, replace_tries, temps, written,
                   attempted, reported, run, first_failed, outsidePost>>

\* post_process is started a second time on the same directory
PostRerun ==
    /\ post_pc = "done"
    /\ run = 1
    /\ post_docs # <<>>
    /\ run' = 2
    /\ first_failed' = {r.pos : r \in reported}
    /\ orig_docs' = post_docs
    /\ cur' = 0
    /\ post_pc' = "main"
    /\ written' = {}
    /\ attempted' = {}
    /\ reported' = {}
    /\ UNCHANGED <<post_docs, replace_tries, temps, outsidePost>>

PostNext ==
    \/ PostNoFiles
    \/ PostBegin
    \/ \E locked \in BOOLEAN : PostOpenFails(locked)
    \/ PostNoRotation
    \/ \E ok \in BOOLEAN : PostWriteTemp(ok)
    \/ \E busy \in BOOLEAN : PostReplace(busy)
    \/ PostEnd
    \/ PostRerun

SpecPost == PostInit /\ [][PostNext]_vars

(* ---------------- downloader.main: the run over the chapters ---------------- *)

MaxUrls == 2        \* URLs of the list
MaxChapter == 2     \* largest chapter number, and chapters the site has

\* str.split('-')[0]: the part before the first dash
RECURSIVE FirstDashPart(_)
FirstDashPart(s) ==
    IF s = <<>> \/ Head(s) = CharDash THEN <<>>
    ELSE <<Head(s)>> \o FirstDashPart(Tail(s))

\* the text after 'chapter-' in a URL: a number, a number with a part after
\* a dash (chapter 1.5 is written chapter-1-5), or no number
UrlTails ==
    {<<n>> : n \in 1..MaxChapter} \cup {<<1, CharDash, 5>>, <<CharX>>}

\* lines 77-79: int(chapter_part.split('-')[0].split('/')[0])
ChapterParses(url) == IntParses(FirstDashPart(url))
ChapterOf(url) == IntOf(FirstDashPart(url))

\* lines 97 and 144: f'{manga_name}_chapter_{chapter_num:03d}.pdf', by its digits
OutputPath(n) == ZeroPad(Digits(n), 3)

OutputPaths == {OutputPath(n) : n \in 1..MaxChapter}

NoFile == [state |-> "absent", by |-> 0]

\* what becomes of a chapter: the page is not fetched, it has no image,
\* download_chapter_images raises (line 64 of download_handler.py), or
\* create_pdf is called and succeeds, fails at an image, or fails at
\* img2pdf.convert
ChapterOutcomes ==
    {"no_html", "no_images", "download_raises", "ok", "decode_fails", "convert_fails"}

\* create_pdf on output path p for the chapter taken at step k: a failure at
\* an image leaves the path alone (pdf_handler.py line 234), the others
\* open it for writing first (line 237)
DocsAfter(p, k, outcome) ==
    IF outcome \in {"ok", "convert_fails"}
    THEN [main_docs EXCEPT ![p] = [state |-> DocAfter(outcome), by |-> k]]
    ELSE main_docs

MainInit ==
    /\ DlIdle
    /\ PdfIdle
    /\ ResizeIdle
    /\ PostIdle
    /\ NetIdle
    /\ run_mode \in {"list", "auto"}
    /\ IF run_mode = "list"
       THEN /\ urls \in SeqsUpTo(UrlTails, MaxUrls)
            /\ chapter_num = 0
            /\ end_chapter = 0
       ELSE /\ urls = <<>>
            /\ chapter_num \in 1..MaxChapter
            /\ end_chapter \in 0..MaxChapter
    /\ url_pos = 0
    /\ main_pc = "start"
    /\ main_docs = [p \in OutputPaths |-> NoFile]
    /\ successful_downloads = <<>>
    /\ events = <<>>
    /\ cleaned = FALSE
    /\ summary = FALSE

\* lines 107-110 and 116-119: the URL file or the manga is not found
MainExitEarly ==
    /\ main_pc = "start"
    /\ cleaned' = TRUE
    /\ main_pc' = "exited"
    /\ UNCHANGED <<run_mode, urls, url_pos, chapter_num, end_chapter, main_docs,
                   successful_downloads, events, summary, outsideMain>>

\* lines 44-71 and 121-122: the loop is entered
MainBegin ==
    /\ main_pc = "start"
    /\ url_pos' = IF run_mode = "list" THEN 1 ELSE 0
    /\ successful_downloads' = <<>>
    /\ main_pc' = "loop"
    /\ UNCHANGED <<run_mode, urls, chapter_num, end_chapter, main_docs, events,
                   cleaned, summary, outsideMain>>

\* variant: a chapter without images ends the run in list mode too
AfterNoImages_AlwaysBreak(m) == "final"

\* lines 91-93: continue in list mode; lines 138-140: break in auto mode
AfterNoImages(m) == IF m = "list" THEN "loop" ELSE "final"

\* lines 102-105: the list goes on; lines 149-151: break in auto mode
AfterPdfFailure(m) == IF m = "list" THEN "loop" ELSE "final"

\* where main is after a chapter with the given outcome
PcAfter(m, outcome) ==
    CASE outcome = "no_html" -> IF m = "list" THEN "loop" ELSE "final"
      [] outcome = "no_images" -> AfterNoImages(m)
      [] outcome = "download_raises" -> "raised"
      [] outcome = "ok" -> "loop"
      [] outcome \in {"decode_fails", "convert_fails"} -> AfterPdfFailure(m)

\* lines 72-82: the chapter number cannot be read from the URL
MainListSkipUrl ==
    /\ main_pc = "loop"
    /\ run_mode = "list"
    /\ url_pos <= Len(urls)
    /\ ~ChapterParses(urls[url_pos])
    /\ events' = Append(events, [at |-> url_pos, what |-> "unparsed"])
    /\ url_pos' = url_pos + 1
    /\ UNCHANGED <<run_mode, urls, chapter_num, end_chapter, main_pc, main_docs,
                   successful_downloads, cleaned, summary, outsideMain>>

\* lines 72-105: one URL of the list
MainListChapter(outcome) ==
    /\ main_pc = "loop"
    /\ run_mode = "list"
    /\ url_pos <= Len(urls)
    /\ ChapterParses(urls[url_pos])
    /\ LET path == OutputPath(ChapterOf(urls[url_pos]))
       IN  /\ main_docs' = DocsAfter(path, Len(events) + 1, outcome)
           /\ successful_downloads' =
                 IF outcome = "ok" THEN Append(successful_downloads, path)
                 ELSE successful_downloads
    /\ events' = Append(events, [at |-> url_pos, what |-> outcome])
    /\ main_pc' = PcAfter("list", outcome)
    /\ url_pos' = IF main_pc' = "loop" THEN url_pos + 1 ELSE url_pos
    /\ UNCHANGED <<run_mode, urls, chapter_num, end_chapter, cleaned, summary,
                   outsideMain>>

\* the for loop of line 72 is over
MainListEnd ==
    /\ main_pc = "loop"
    /\ run_mode = "list"
    /\ url_pos > Len(urls)
    /\ main_pc' = "final"
    /\ UNCHANGED <<run_mode, urls, url_pos, chapter_num, end_chapter, main_docs,
                   successful_downloads, events, cleaned, summary, outsideMain>>

\* lines 125-127: the end chapter is passed
MainAutoEnd ==
    /\ main_pc = "loop"
    /\ run_mode = "auto"
    /\ end_chapter # 0 /\ chapter_num > end_chapter
    /\ main_pc' = "final"
    /\ UNCHANGED <<run_mode, urls, url_pos, chapter_num, end_chapter, main_docs,
                   successful_downloads, events, cleaned, summary, outsideMain>>

\* lines 124-154: one chapter of the sequence; the site has no chapter
\* after MaxChapter
MainAutoChapter(outcome) ==
    /\ main_pc = "loop"
    /\ run_mode = "auto"
    /\ ~(end_chapter # 0 /\ chapter_num > end_chapter)
    /\ chapter_num > MaxChapter => outcome = "no_html"
    /\ IF outcome = "no_html"
       THEN UNCHANGED <<main_docs, successful_downloads>>
       ELSE /\ main_docs' = DocsAfter(OutputPath(chapter_num), Len(events) + 1, outcome)
            /\ successful_downloads' =
                  IF outcome = "ok"
                  THEN Append(successful_downloads, OutputPath(chapter_num))
                  ELSE successful_downloads
    /\ events' = Append(events, [at |-> chapter_num, what |-> outcome])
    /\ main_pc' = PcAfter("auto", outcome)
    /\ chapter_num' = IF main_pc' = "loop" THEN chapter_num + 1 ELSE chapter_num
    /\ UNCHANGED <<run_mode, urls, url_pos, end_chapter, cleaned, summary,
                   outsideMain>>

\* lines 160-164: what the summary says, given the documents made and the
\* last chapter number; without a document it is one fixed warning
SummaryOf(made, last) ==
    IF made # <<>> THEN <<"downloaded", Len(made), last>>
    ELSE <<"no chapters were successfully downloaded">>

\* lines 156-164: the final cleanup and the summary
MainFinal ==
    /\ main_pc = "final"
    /\ cleaned' = TRUE
    /\ summary' = TRUE
    /\ main_pc' = "done"
    /\ UNCHANGED <<run_mode, urls, url_pos, chapter_num, end_chapter, main_docs,
                   successful_downloads, events, outsideMain>>

MainNext ==
    \/ MainExitEarly
    \/ MainBegin
    \/ MainListSkipUrl
    \/ \E outcome \in ChapterOutcomes : MainListChapter(outcome)
    \/ MainListEnd
    \/ MainAutoEnd
    \/ \E outcome \in ChapterOutcomes : MainAutoChapter(outcome)
    \/ MainFinal

SpecMain == MainInit /\ [][MainNext]_vars

(* ---------------- the network operations of one chapter ---------------- *)

MaxWait == 32       \* seconds a request without timeout is followed for
image_timeout == 30

\* the timeout argument of session.get: verify_manga_exists (line 26) and
\* get_html_content (line 36) pass none, the image download passes 30 (line 78)
TimeoutOf(op) == IF op = "image" THEN image_timeout ELSE 0

\* a request is sent; silent is whether the remote never answers it
NetRequest(op, silent) ==
    /\ net_op' = op
    /\ net_timeout' = TimeoutOf(op)
    /\ net_elapsed' = 0
    /\ net_silent' = silent

\* auto-discovery mode begins with verify_manga_exists, list mode with
\* get_html_content
NetInit ==
    /\ DlIdle
    /\ PdfIdle
    /\ ResizeIdle
    /\ PostIdle
    /\ MainIdle
    /\ net_op \in {"verify", "html"}
    /\ net_timeout = TimeoutOf(net_op)
    /\ net_elapsed = 0
    /\ net_silent \in BOOLEAN
    /\ net_img = 0
    /\ net_attempt = 0
    /\ net_imgs \in 0..MaxRefs

\* a second passes without an answer; a request without timeout is
\* followed for MaxWait seconds
NetWait ==
    /\ net_op \in {"verify", "html", "image"}
    /\ net_elapsed < (IF net_timeout = 0 THEN MaxWait ELSE net_timeout)
    /\ net_elapsed' = net_elapsed + 1
    /\ UNCHANGED <<net_op, net_timeout, net_silent, net_img, net_attempt, net_imgs,
                   outsideNet>>

\* the operation in hand has failed: downloader.py lines 116-119 and 86-88
\* or 132-134 end the chapter, download_handler.py lines 95-100 go to the
\* next attempt or, after retry_count attempts, to the next image
NetAfterFailure(silent) ==
    CASE net_op \in {"verify", "html"} ->
            /\ net_op' = "over"
            /\ UNCHANGED <<net_timeout, net_elapsed, net_silent, net_img, net_attempt>>
      [] net_op = "image" /\ net_attempt < retry_count - 1 ->
            /\ NetRequest("image", silent)
            /\ net_attempt' = net_attempt + 1
            /\ UNCHANGED net_img
      [] net_op = "image" /\ net_attempt >= retry_count - 1 /\ net_img + 1 < net_imgs ->
            /\ NetRequest("image", silent)
            /\ net_attempt' = 0
            /\ net_img' = net_img + 1
      [] OTHER ->
            /\ net_op' = "over"
            /\ UNCHANGED <<net_timeout, net_elapsed, net_silent, net_img, net_attempt>>

\* the operation in hand has succeeded: the next one is begun
NetAfterSuccess(silent) ==
    CASE net_op = "verify" ->
            /\ NetRequest("html", silent)
            /\ UNCHANGED <<net_img, net_attempt>>
      [] net_op = "html" /\ net_imgs > 0 ->
            /\ NetRequest("image", silent)
            /\ net_img' = 0
            /\ net_attempt' = 0
      [] net_op = "image" /\ net_img + 1 < net_imgs ->
            /\ NetRequest("image", silent)
            /\ net_img' = net_img + 1
            /\ net_attempt' = 0
      [] OTHER ->
            /\ net_op' = "over"
            /\ UNCHANGED <<net_timeout, net_elapsed, net_silent, net_img, net_attempt>>

\* the remote answers, with a good answer or a bad one
NetAnswer(good, silent) ==
    /\ net_op \in {"verify", "html", "image"}
    /\ ~net_silent
    /\ IF good THEN NetAfterSuccess(silent) ELSE NetAfterFailure(silent)
    /\ UNCHANGED <<net_imgs, outsideNet>>

\* the timeout of the request has passed: requests raises, the operation fails
NetTimeout(silent) ==
    /\ net_op \in {"verify", "html", "image"}
    /\ net_timeout # 0
    /\ net_elapsed = net_timeout
    /\ NetAfterFailure(silent)
    /\ UNCHANGED <<net_imgs, outsideNet>>

NetNext ==
    \/ NetWait
    \/ \E good \in BOOLEAN, silent \in BOOLEAN : NetAnswer(good, silent)
    \/ \E silent \in BOOLEAN : NetTimeout(silent)

\* time passes and the program goes on whenever it can
SpecNet == NetInit /\ [][NetNext]_vars /\ WF_vars(NetNext)

(* ======================= claims: the fetch ======================= *)

Count(s, x) == Cardinality({k \in 1..Len(s) : s[k] = x})

Min(a, b) == IF a < b THEN a ELSE b

\* three zero-padded decimal digits
ExpectedName(n) == <<n \div 100, (n \div 10) % 10, n % 10>>

\* 0-based position of a ref in the sorted list
PosOf(r) == (CHOOSE j \in 1..Len(images) : images[j] = r) - 1

HasUrl(j) == ImgUrl(html[images[j + 1]]) # <<>>

\* C1: when the N-th attempt for a ref succeeds (N <= 3), its path is in the
\* returned list exactly once, as the last element appended, the retry loop
\* is left, and no attempt is ever made for a ref whose path is in the list.
Thm_C1 ==
    /\ lastStep = "ok" =>
          /\ pc # "try"
          /\ tries \in 1..retry_count
          /\ fetched # <<>>
          /\ fetched[Len(fetched)].name \in Range(image_paths)
          /\ Count(image_paths, fetched[Len(fetched)].name) = 1
    /\ pc = "try" => FileName(index) \notin Range(image_paths)
    /\ \A a, b \in 1..Len(image_paths) : a # b => image_paths[a] # image_paths[b]

Witness_C1 == lastStep = "ok" /\ tries = 3 /\ Len(image_paths) = 2

\* C2 as stated: the k-th returned file (from 0) is named with the
\* zero-padded k, whatever refs were dropped before it.
Cex_C2 ==
    pc = "returned" =>
        \A k \in 1..Len(image_paths) : image_paths[k] = ExpectedName(k - 1)

\* C2 amended: the k-th returned file is named with the zero-padded position
\* of its ref in the sorted ref list, that is k plus the number of dropped
\* refs before it; the names strictly increase along the returned list.
Thm_C2 ==
    pc = "returned" =>
        /\ Len(fetched) = Len(image_paths)
        /\ \A k \in 1..Len(image_paths) :
              image_paths[k] = ExpectedName(PosOf(fetched[k].ref))
        /\ \A a, b \in 1..Len(fetched) :
              a < b => PosOf(fetched[a].ref) < PosOf(fetched[b].ref)

Witness_C2 ==
    /\ pc = "returned"
    /\ Len(image_paths) = 1
    /\ image_paths[1] = <<0, 0, 1>>
    /\ dropped = {0}

\* C3: at most 3 attempts per ref; the delays slept are 1 after the first
\* failed attempt and 2 after the second, none after the third failure and
\* none after a success.
Thm_C3 ==
    /\ tries <= retry_count
    /\ attempt < retry_count
    /\ sleeps = SubSeq(<<1, 2>>, 1,
                       Min(IF lastStep = "ok" THEN tries - 1 ELSE tries, 2))

Witness_C3 == lastStep \in FailKinds /\ pc = "loop" /\ tries = 3 /\ sleeps = <<1, 2>>

\* C4: a ref whose 3 attempts all fail is dropped and the fetch goes on:
\* only the sort can raise, every ref with a URL is attempted, and every
\* ref with a succeeding attempt is in the returned list.
Thm_C4 ==
    /\ (lastStep \in FailKinds /\ tries = retry_count) =>
          (pc = "loop" /\ index - 1 \in dropped)
    /\ pc = "raised" => (images = <<>> /\ dropped = {})
    /\ pc = "returned" /\ images # <<>> =>
          /\ index = Len(images)
          /\ \A j \in 0..(Len(images) - 1) :
                HasUrl(j) =>
                   \/ j \in dropped
                   \/ \E k \in 1..Len(image_paths) :
                         fetched[k].idx = j /\ image_paths[k] = fetched[k].name
          /\ \A k \in 1..Len(fetched) : fetched[k].name \in Range(image_paths)

Witness_C4 ==
    /\ pc = "returned"
    /\ 0 \in dropped
    /\ Len(image_paths) >= 1
    /\ fetched[Len(fetched)].idx = Len(images) - 1

\* C5: after a failed attempt no file is left at that index's path, and at
\* the end of the fetch a file exists only for indices in the returned list.
Cex_C5 ==
    /\ (lastStep \in FailKinds /\ pc = "try") => FileName(index) \notin DOMAIN files
    /\ pc = "returned" => \A n \in DOMAIN files : n \in Range(image_paths)

\* C6: when no ref is downloaded (no refs, or every ref used up its
\* attempts) the function returns the empty list and does not raise, and
\* main then makes no create_pdf call and writes no document.
Thm_C6 ==
    /\ (pc \in {"returned", "next_chapter", "halt"} /\ fetched = <<>>) =>
          (image_paths = <<>> /\ ~pdfInput.called /\ documents = {})
    /\ (html = <<>> \/ dropped # {}) => pc # "raised"

Witness_C6 ==
    /\ pc \in {"next_chapter", "halt"}
    /\ fetched = <<>>
    /\ dropped # {}
    /\ Cardinality(dropped) = Len(images)

\* order on refs: ascending key, equal keys in document order
RefBefore(r1, r2) ==
    \/ Key(html[r1]) < Key(html[r2])
    \/ Key(html[r1]) = Key(html[r2]) /\ r1 < r2

\* C7: the paths given to create_pdf are those of the downloaded refs in
\* ascending key order, equal keys in document order.
Thm_C7 ==
    /\ pc = "returned" => Len(fetched) = Len(image_paths)
    /\ pdfInput.called =>
          /\ pdfInput.paths = [k \in 1..Len(fetched) |-> fetched[k].name]
          /\ \A a, b \in 1..Len(fetched) :
                a < b => RefBefore(fetched[a].ref, fetched[b].ref)

Witness_C7 ==
    /\ pdfInput.called
    /\ \E a, b \in 1..Len(fetched) :
          /\ a < b
          /\ fetched[a].ref > fetched[b].ref
          /\ Key(html[fetched[a].ref]) < Key(html[fetched[b].ref])

SameKeyEarlier(r) == \E r2 \in 1..(r - 1) : Key(html[r2]) = Key(html[r])

\* C8 as stated: of refs with the same key only the first-seen one
\* contributes an image.
Cex_C8 ==
    pc = "returned" => \A k \in 1..Len(fetched) : ~SameKeyEarlier(fetched[k].ref)

\* C8 amended: refs with the same key each write the file of their own
\* index, so a later one never overwrites the image of the first-seen one,
\* and every one that is downloaded appears as an image of its own, in
\* first-seen order.
Thm_C8 ==
    [][/\ \A n \in DOMAIN files :
             n \in DOMAIN files' => files'[n].from = files[n].from
       /\ pc' = "returned" =>
             \A a, b \in 1..Len(fetched') :
                (a < b /\ Key(html[fetched'[a].ref]) = Key(html[fetched'[b].ref])) =>
                    /\ fetched'[a].ref < fetched'[b].ref
                    /\ image_paths'[a] # image_paths'[b]
                    /\ files'[image_paths'[a]].from = fetched'[a].ref
                    /\ files'[image_paths'[b]].from = fetched'[b].ref]_vars

Witness_C8 ==
    /\ pc = "returned"
    /\ \E a, b \in 1..Len(fetched) :
          a < b /\ Key(html[fetched[a].ref]) = Key(html[fetched[b].ref])

(* ======================= claims: the page pass ======================= *)

PairOf(a, b) ==
    [kind |-> "canvas",
     pastes |-> <<[img |-> a, slot |-> "left"], [img |-> b, slot |-> "right"]>>]

SoloOf(a) == [kind |-> "canvas", pastes |-> <<[img |-> a, slot |-> "center"]>>]

PassThroughOf(a) == [kind |-> "raw", pastes |-> <<[img |-> a, slot |-> "file"]>>]

PageImgs(pg) == {pg.pastes[k].img : k \in 1..Len(pg.pastes)}

NumImages == Len(pdf_paths)

PortraitAt(n) == pdf_paths[n].w < pdf_paths[n].h

PdfSucceeded == ppc = "done" /\ pdf_result

\* C9: with combining on, reverse off and buffer off, the pages are made in
\* one left-to-right pass: a portrait followed by a portrait gives one pair
\* page for both, a portrait without portrait successor one solo page, a
\* landscape one pass-through page; [P, P, L, P, P] gives exactly
\* [pair(1,2), passthrough(3), pair(4,5)].
Thm_C9 ==
    (ppc \in {"pass", "done"} /\ combine_portraits /\ ~reverse_order /\ ~add_buffer) =>
        /\ \A k \in 1..Len(processed_images) :
              LET pg == processed_images[k]
                  first == IF k = 1 THEN 1
                           ELSE 1 + CHOOSE m \in PageImgs(processed_images[k - 1]) :
                                       \A m2 \in PageImgs(processed_images[k - 1]) : m2 <= m
              IN  \/ /\ pg = PairOf(first, first + 1)
                     /\ PortraitAt(first) /\ PortraitAt(first + 1)
                  \/ /\ pg = SoloOf(first)
                     /\ PortraitAt(first)
                     /\ first = NumImages \/ ~PortraitAt(first + 1)
                  \/ /\ pg = PassThroughOf(first)
                     /\ ~PortraitAt(first)
        /\ UNION {PageImgs(processed_images[k]) : k \in 1..Len(processed_images)} = 1..i
        /\ PdfSucceeded => i = NumImages
        /\ (/\ PdfSucceeded
            /\ NumImages = 5
            /\ \A n \in 1..5 : PortraitAt(n) <=> n # 3) =>
               processed_images = <<PairOf(1, 2), PassThroughOf(3), PairOf(4, 5)>>

Witness_C9 ==
    /\ PdfSucceeded
    /\ combine_portraits /\ ~reverse_order /\ ~add_buffer
    /\ NumImages = 5
    /\ \A n \in 1..5 : PortraitAt(n) <=> n # 3
    /\ Len(processed_images) = 3

\* a maximal run of portraits s..e among the images from..NumImages
IsPortraitRun(from, s, e) ==
    /\ from <= s /\ s <= e /\ e <= NumImages
    /\ \A n \in s..e : PortraitAt(n)
    /\ s = from \/ ~PortraitAt(s - 1)
    /\ e = NumImages \/ ~PortraitAt(e + 1)

\* image e has a page of its own, centred alone on a canvas
RenderedAlone(e) ==
    /\ \E k \in 1..Len(processed_images) : processed_images[k] = SoloOf(e)
    /\ Cardinality({k \in 1..Len(processed_images) :
                        e \in PageImgs(processed_images[k])}) = 1

OddRunsEndAlone(from) ==
    \A s, e \in 1..NumImages :
        (IsPortraitRun(from, s, e) /\ (e - s + 1) % 2 = 1) => RenderedAlone(e)

\* C10 as stated: with combining on, the last image of every maximal run of
\* portraits of odd length is rendered alone, centred on a full canvas.
Cex_C10 == (PdfSucceeded /\ combine_portraits) => OddRunsEndAlone(1)

\* C10 amended: with combining on, the last image of every maximal run of
\* portraits of odd length among the images the pairing pass handles (all
\* images, less the first one when the leading buffer is on) is rendered
\* alone, centred on a full canvas, and is in no other page.
Thm_C10 ==
    (PdfSucceeded /\ combine_portraits) =>
        OddRunsEndAlone(IF add_buffer THEN 2 ELSE 1)

Witness_C10 ==
    /\ PdfSucceeded
    /\ combine_portraits
    /\ add_buffer
    /\ NumImages = 5
    /\ IsPortraitRun(2, 2, 4)
    /\ RenderedAlone(4)

\* the page made for image n is the bytes of its file, and n is in no other page
PassedThrough(n) ==
    /\ \E k \in 1..Len(processed_images) : processed_images[k] = PassThroughOf(n)
    /\ Cardinality({k \in 1..Len(processed_images) :
                        n \in PageImgs(processed_images[k])}) = 1

\* C11 as stated: under every combination of the options, the page for a
\* landscape image (width >= height) at any index is the source file's bytes.
Cex_C11 ==
    PdfSucceeded => \A n \in 1..NumImages : ~PortraitAt(n) => PassedThrough(n)

\* C11 amended: the page for a landscape image is the source file's bytes
\* under every combination of the options, except for the first image of
\* the sequence when the leading buffer is on (it is resized onto the
\* buffer canvas and re-encoded).
Thm_C11 ==
    PdfSucceeded =>
        \A n \in 1..NumImages :
            (~PortraitAt(n) /\ ~(add_buffer /\ n = 1)) => PassedThrough(n)

Witness_C11 ==
    /\ PdfSucceeded
    /\ add_buffer /\ combine_portraits /\ reverse_order
    /\ NumImages >= 3
    /\ ~PortraitAt(1) /\ PortraitAt(2) /\ ~PortraitAt(3)
    /\ PassedThrough(3)

(* ---- C12: the geometry of a paired canvas ---- *)

Covers(outer, inner) ==
    /\ outer.x <= inner.x /\ inner.x + inner.w <= outer.x + outer.w
    /\ outer.y <= inner.y /\ inner.y + inner.h <= outer.y + outer.h

Overlap(b1, b2) ==
    /\ b1.x < b2.x + b2.w /\ b2.x < b1.x + b1.w
    /\ b1.y < b2.y + b2.h /\ b2.y < b1.y + b1.h

\* paste k of the page still shows: no later paste lies over all of it
\* (the two slots are apart, so only one later paste can lie over it)
ShowsThrough(pg, k) ==
    ~\E j \in (k + 1)..Len(pg.pastes) :
        Covers(PasteBox(pg.pastes[j]), PasteBox(pg.pastes[k]))

VerticallyCentered(box) == TARGET_HEIGHT - (2 * box.y + box.h) \in {0, 1}

\* the page shows image l in the left slot and image r in the right slot and
\* nothing else
ShowsPair(pg, l, r) ==
    LET shown == {k \in 1..Len(pg.pastes) : ShowsThrough(pg, k)}
    IN  /\ Cardinality(shown) = 2
        /\ \E kl, kr \in shown :
              /\ pg.pastes[kl] = [img |-> l, slot |-> "left"]
              /\ pg.pastes[kr] = [img |-> r, slot |-> "right"]
              /\ PasteBox(pg.pastes[kl]).x = PADDING
              /\ PasteBox(pg.pastes[kr]).x = TARGET_WIDTH \div 2 + PADDING
              /\ ~Overlap(PasteBox(pg.pastes[kl]), PasteBox(pg.pastes[kr]))
              /\ VerticallyCentered(PasteBox(pg.pastes[kl]))
              /\ VerticallyCentered(PasteBox(pg.pastes[kr]))

\* C12 as stated: a canvas that pairs portrait image a with portrait image
\* a+1 shows exactly two image regions, apart from each other and each
\* vertically centred: a left and a+1 right with reverse-pair-order off, a+1
\* left and a right with it on, nothing of either image showing in the slot
\* it was swapped out of, whatever the two resized heights.
Cex_C12 ==
    \A k \in 1..Len(processed_images) : \A a \in 1..NumImages :
        (processed_images[k].kind = "canvas"
            /\ PageImgs(processed_images[k]) = {a, a + 1}) =>
        IF reverse_order THEN ShowsPair(processed_images[k], a + 1, a)
        ELSE ShowsPair(processed_images[k], a, a + 1)

\* the same with reverse-pair-order off, where the code does as the claim says
PairGeometry_ReverseOff ==
    ~reverse_order => Cex_C12

\* with reverse-pair-order on it also does when the two resized sizes agree
PairGeometry_SameSize ==
    \A k \in 1..Len(processed_images) : \A a \in 1..NumImages :
        (processed_images[k].kind = "canvas"
            /\ PageImgs(processed_images[k]) = {a, a + 1}
            /\ ResizeImage(pdf_paths[a], FALSE) = ResizeImage(pdf_paths[a + 1], FALSE)) =>
        IF reverse_order THEN ShowsPair(processed_images[k], a + 1, a)
        ELSE ShowsPair(processed_images[k], a, a + 1)

(* ======================= claims: the resize ======================= *)

\* v is the whole part of num / den, or one below it
NearFloor(v, num, den) == v * den <= num /\ num < (v + 2) * den

Witness_C14_WidthBinds ==
    /\ rz_img = [w |-> 3, h |-> 2]
    /\ \E r \in rz_result : r.w = TargetWidth(rz_single) /\ r.h < 2160

Witness_C14_BelowWhole ==
    /\ ~rz_single
    /\ rz_img = [w |-> 14, h |-> 17]
    /\ \E r \in rz_result : r.w = 1484 /\ r.h = 1801

(* ======================= claims: the files of create_pdf ======================= *)

\* every image of the input is in some page of the document
EveryImageIncluded ==
    \A n \in 1..NumImages :
        \E k \in 1..Len(processed_images) : n \in PageImgs(processed_images[k])

\* C13 as stated: when a step of create_pdf fails the call reports failure
\* and leaves no file at or beside the output path that was not there
\* before, neither an empty or partial document nor a per-page temp file; a
\* document is there after the call only when the call reports success with
\* every page in it.
Cex_C13 ==
    ppc = "done" =>
        /\ ~pdf_result => (out_doc = "absent" /\ temp_files = {})
        /\ out_doc # "absent" =>
              (pdf_result /\ out_doc = "complete" /\ EveryImageIncluded)

\* what the code does keep: a failure to open or decode a source image
\* leaves no file, and a call that reports success leaves the whole document
NoFileAfterDecodeError ==
    [][(PassDecodeError \/ BufferDecodeError) =>
            (out_doc' = "absent" /\ temp_files' = {} /\ ~pdf_result')]_vars

WholeDocumentOnSuccess ==
    PdfSucceeded => (out_doc = "complete" /\ temp_files = {} /\ EveryImageIncluded)

(* ======================= claims: post-processing ======================= *)

DocPositions == 1..Len(post_docs)

\* the positions this run has reported as failed
Failed == {r.pos : r \in reported}

\* the document at position d has been processed to its end by this run
Ended(d) == d \in attempted /\ (d < cur \/ post_pc = "done")

\* C15: a second run over a document the first run has normalized changes
\* nothing: the document after two runs is the document after one run, and
\* the second run writes nothing for it.
Thm_C15 ==
    run = 2 =>
        \A d \in DocPositions :
            d \notin first_failed =>
                (post_docs[d] = orig_docs[d] /\ d \notin written /\ d \notin temps)

Witness_C15 ==
    /\ run = 2
    /\ post_pc = "done"
    /\ \E d \in DocPositions :
          /\ d \notin first_failed
          /\ d \in attempted
          /\ \E k \in 1..Len(post_docs[d].pages) : post_docs[d].pages[k].rot = 90

\* page q is page p turned once
TurnedOnce(p, q) == q = [w |-> p.h, h |-> p.w, rot |-> p.rot + 90]

\* C16: post-processing turns exactly the pages wider than high and leaves
\* every other page and the number of pages as they were; of the pages
\* 2160 x 3048 and 3048 x 2160 only the second is turned.
Thm_C16 ==
    \A d \in DocPositions :
        LET o == orig_docs[d]
            n == post_docs[d]
        IN  /\ Len(n.pages) = Len(o.pages)
            /\ \/ n = o
               \/ \A k \in 1..Len(o.pages) :
                     IF o.pages[k].w > o.pages[k].h
                     THEN TurnedOnce(o.pages[k], n.pages[k])
                     ELSE n.pages[k] = o.pages[k]
            /\ (Ended(d) /\ d \notin Failed) =>
                  \A k \in 1..Len(o.pages) :
                     IF o.pages[k].w > o.pages[k].h
                     THEN TurnedOnce(o.pages[k], n.pages[k])
                     ELSE n.pages[k] = o.pages[k]

Witness_C16 ==
    \E d \in DocPositions :
        /\ run = 1
        /\ Ended(d) /\ d \notin Failed
        /\ orig_docs[d].pages = <<[w |-> 2160, h |-> 3048, rot |-> 0],
                                  [w |-> 3048, h |-> 2160, rot |-> 0]>>
        /\ post_docs[d].pages = <<[w |-> 2160, h |-> 3048, rot |-> 0],
                                  [w |-> 2160, h |-> 3048, rot |-> 90]>>

\* C17: when the processing of a document has ended, by success or by
\* failure, the exhaustion of the 3 replacement tries on "file busy"
\* included, the document is the original or the whole rebuilt document
\* (the original after a failure), no temporary sibling is left, and
\* nothing was written when no page needed turning.
Thm_C17 ==
    \A d \in DocPositions :
        Ended(d) =>
            /\ post_docs[d] \in {orig_docs[d], Rebuild(orig_docs[d])}
            /\ d \in Failed => post_docs[d] = orig_docs[d]
            /\ d \notin temps
            /\ ~AnyPageNeedsRotation(orig_docs[d]) => d \notin written

Witness_C17 ==
    \E d \in DocPositions :
        /\ Ended(d)
        /\ [pos |-> d, why |-> "busy"] \in reported
        /\ d \in written
        /\ post_docs[d] = orig_docs[d]
        /\ temps = {}

PdfFailureStep ==
    /\ Len(events') = Len(events) + 1
    /\ events'[Len(events')].what \in {"decode_fails", "convert_fails"}

\* no document completed earlier in the run is changed or removed by the step
EarlierDocsKept ==
    \A p \in DOMAIN main_docs :
        main_docs[p].state = "complete" => main_docs'[p] = main_docs[p]

\* list mode goes on with the next URL, auto mode leaves the loop
ProceedsOrHalts ==
    /\ run_mode = "list" => (main_pc' = "loop" /\ url_pos' = url_pos + 1)
    /\ run_mode = "auto" => (main_pc' = "final" /\ chapter_num' = chapter_num)

\* C19 as stated: when create_pdf fails for a chapter no document of an
\* earlier completed chapter is changed or removed, and the run goes on to
\* the next URL in list mode and halts without another chapter in
\* auto-discovery mode.
Cex_C19 ==
    [][PdfFailureStep => (EarlierDocsKept /\ ProceedsOrHalts)]_vars

\* what the code does keep: the run goes on or halts as said, nothing is
\* taken after the loop is left, and the earlier documents stay when the
\* failing chapter has an output path of its own
GoesOnOrHaltsAfterPdfFailure ==
    [][PdfFailureStep => ProceedsOrHalts]_vars

NothingAfterTheLoop ==
    [][(main_pc \in {"final", "done", "raised", "exited"}) => (events' = events)]_vars

EarlierDocsKept_OwnPath ==
    [][(PdfFailureStep
          /\ (run_mode = "list" =>
                 \A k \in 1..(url_pos - 1) :
                    ChapterParses(urls[k]) =>
                       ChapterOf(urls[k]) # ChapterOf(urls[url_pos])))
        => EarlierDocsKept]_vars

\* C20 as stated: a chapter without image references ends the whole run at
\* that chapter, in list mode and in auto-discovery mode: no later chapter
\* is taken, nothing is raised, and the final cleanup and the summary are
\* made.
Cex_C20 ==
    \A k \in 1..Len(events) :
        events[k].what = "no_images" =>
            /\ k = Len(events)
            /\ main_pc \in {"final", "done"}
            /\ main_pc = "done" => (cleaned /\ summary)

\* C20 amended: in auto-discovery mode a chapter without image references
\* ends the run at that chapter; in list mode only that chapter is left out
\* and the next URL of the list is taken.  In both modes nothing is raised
\* by it and a run that comes to its end has made the final cleanup and
\* the summary.
Thm_C20 ==
    /\ \A k \in 1..Len(events) :
          events[k].what = "no_images" =>
              /\ run_mode = "auto" =>
                    (k = Len(events) /\ main_pc \in {"final", "done"})
              /\ (run_mode = "list" /\ k = Len(events)) =>
                    /\ url_pos = events[k].at + 1
                    /\ main_pc \in {"loop", "final", "done"}
                    /\ main_pc \in {"final", "done"} => url_pos > Len(urls)
    /\ main_pc = "done" => (cleaned /\ summary)
    /\ (main_pc = "done" /\ run_mode = "list") => Len(events) = Len(urls)

Witness_C20 ==
    /\ run_mode = "list"
    /\ main_pc = "done"
    /\ Len(events) = 2
    /\ events[1].what = "no_images"
    /\ events[2].what = "ok"
    /\ cleaned /\ summary

Witness_C20_Auto ==
    /\ run_mode = "auto"
    /\ main_pc = "done"
    /\ Len(events) = 2
    /\ events[1].what = "ok"
    /\ events[2].what = "no_images"
    /\ cleaned /\ summary

(* ======================= claims: the summary ======================= *)

\* the run has ended: by the end of main, by sys.exit(1), or by an exception
RunEnded == main_pc \in {"done", "exited", "raised"}

\* the summary of a run without any target: no URL in the list, or an end
\* chapter before the start chapter
EmptyInputSummary == SummaryOf(<<>>, 0)

\* C21 as stated: however the run ends (all chapters done, a chapter
\* failed, the URL file missing, the manga not found) a summary of the
\* completed chapters is emitted, and the summary of a run that had targets
\* and no success is not the summary of a run without targets.
Cex_C21 ==
    /\ main_pc \in {"done", "exited"} => summary
    /\ (main_pc = "done" /\ events # <<>> /\ successful_downloads = <<>>) =>
          SummaryOf(successful_downloads, chapter_num - 1) # EmptyInputSummary

\* what the code does keep: a run that leaves its loop, after a failed
\* chapter too, emits the summary, and the summary counts the documents made
SummaryAfterTheLoop ==
    main_pc = "done" =>
        /\ summary
        /\ successful_downloads # <<>> =>
              SummaryOf(successful_downloads, chapter_num - 1)[2]
                  = Cardinality({k \in 1..Len(events) : events[k].what = "ok"})

(* ======================= claims: the timeouts ======================= *)

NetOver == net_op = "over"

\* C22 as stated: every network operation of the run (the check that the
\* manga exists, the fetch of the chapter page, each image download attempt)
\* has an explicit timeout, so that with a remote that never answers the
\* operation still ends, as a failure, and the run comes to its end.
Cex_C22 ==
    /\ [](net_op \in {"verify", "html", "image"} => net_timeout # 0)
    /\ <>NetOver

\* what the code does keep: an image download attempt waits 30 seconds at
\* most, and then ends
ImageAttemptBounded ==
    net_op = "image" => (net_timeout = 30 /\ net_elapsed <= 30)

ImageAttemptEnds ==
    \A k \in 0..(MaxRefs - 1), a \in 0..(retry_count - 1) :
        (net_op = "image" /\ net_img = k /\ net_attempt = a)
            ~> ~(net_op = "image" /\ net_img = k /\ net_attempt = a)

(* ======================= claims: the leading buffer ======================= *)

\* the halves of the canvas, as rectangles
LeftHalf == [x |-> 0, y |-> 0, w |-> TARGET_WIDTH \div 2, h |-> TARGET_HEIGHT]

RightHalf ==
    [x |-> TARGET_WIDTH \div 2, y |-> 0,
     w |-> TARGET_WIDTH - TARGET_WIDTH \div 2, h |-> TARGET_HEIGHT]

\* the page shows image n alone, vertically centred, inside the given half
AloneInHalf(pg, n, half) ==
    /\ pg.kind = "canvas"
    /\ Len(pg.pastes) = 1
    /\ pg.pastes[1].img = n
    /\ Covers(half, PasteBox(pg.pastes[1]))
    /\ VerticallyCentered(PasteBox(pg.pastes[1]))

\* the buffer page has been made
Buffered == add_buffer /\ ppc \in {"pass", "done"} /\ processed_images # <<>>

\* C23: with the leading buffer on, the first image, portrait or not, is
\* alone on a full canvas, vertically centred, in the right half with
\* reverse-pair-order off and in the left half with it on; the pass goes on
\* from index 1, so that the pairing of the other images is shifted by one:
\* image 1 is in no later page, two portraits at 2 and 3 share the second
\* page when combining is on, and [P, P, P] gives [buffer(1), pair(2, 3)].
Thm_C23 ==
    Buffered =>
        /\ AloneInHalf(processed_images[1], 1,
                       IF reverse_order THEN LeftHalf ELSE RightHalf)
        /\ i >= 1
        /\ \A k \in 2..Len(processed_images) :
              /\ 1 \notin PageImgs(processed_images[k])
              /\ k = 2 => 2 \in PageImgs(processed_images[k])
        /\ (/\ combine_portraits
            /\ Len(processed_images) >= 2
            /\ NumImages >= 3 /\ PortraitAt(2) /\ PortraitAt(3)) =>
               /\ processed_images[2].kind = "canvas"
               /\ PageImgs(processed_images[2]) = {2, 3}
        /\ (PdfSucceeded /\ combine_portraits /\ NumImages = 3
                /\ \A n \in 1..3 : PortraitAt(n)) =>
               /\ Len(processed_images) = 2
               /\ PageImgs(processed_images[2]) = {2, 3}

\* the step that makes the buffer page leaves the pass at index 1
BufferStepAdvancesByOne ==
    [][(ppc = "buffer" /\ ppc' = "pass") =>
          (i' = 1 /\ Len(processed_images') = 1)]_vars

Witness_C23 ==
    /\ PdfSucceeded
    /\ add_buffer /\ combine_portraits /\ ~reverse_order
    /\ NumImages = 3
    /\ \A n \in 1..3 : PortraitAt(n)
    /\ processed_images[2] = PairOf(2, 3)

Witness_C23_LandscapeLeft ==
    /\ PdfSucceeded
    /\ add_buffer /\ reverse_order
    /\ ~PortraitAt(1)
    /\ AloneInHalf(processed_images[1], 1, LeftHalf)

(* ======================= claims: combining disabled ======================= *)

\* the images the loop at line 217 handles
MainPassImages == (IF add_buffer THEN 2 ELSE 1)..NumImages

\* C24 as stated: with combine-portraits off, every portrait the main pass
\* handles is rendered alone (resized to the half-canvas width, centred on a
\* full canvas, one image per step), so that only landscape images are
\* passed through as the bytes of their file.
Cex_C24 ==
    (PdfSucceeded /\ ~combine_portraits) =>
        \A n \in MainPassImages :
            /\ PortraitAt(n) => RenderedAlone(n)
            /\ PassedThrough(n) => ~PortraitAt(n)

\* what the pass does with combining off: every image it handles, portrait
\* or not, becomes one page holding the bytes of its file
AllPassedThroughWhenNotCombining ==
    (PdfSucceeded /\ ~combine_portraits) =>
        \A n \in MainPassImages : PassedThrough(n)

(* ======================= claims: the ordering key ======================= *)

\* the tag has no data-order attribute, and no id whose part after the last
\* dash is a number
HasNoKey(tag) ==
    /\ "data-order" \notin DOMAIN tag
    /\ "id" \notin DOMAIN tag \/ ~IntParses(LastDashPart(tag["id"]))

SomeRefHasNoKey == \E p \in 1..Len(html) : HasNoKey(html[p])

\* C25 as stated: when a ref has neither an order attribute nor an
\* identifier with a numeric suffix, key extraction reports an error for the
\* chapter: the refs are never sorted with key 0 given to that ref, and no
\* exception leaves download_chapter_images.
Cex_C25 ==
    SomeRefHasNoKey =>
        /\ pc # "raised"
        /\ images = <<>>

\* what line 64 does with such a ref: without id its key is 0 and the sort
\* goes on, with an id that has no numeric suffix int() raises
KeyZeroOrRaise ==
    \A p \in 1..Len(html) :
        HasNoKey(html[p]) =>
            IF "id" \in DOMAIN html[p]
            THEN ~KeyParses(html[p]) /\ images = <<>>
            ELSE KeyParses(html[p]) /\ Key(html[p]) = 0

\* both outcomes happen
SortedWithKeyZero ==
    /\ pc = "returned"
    /\ \E p \in 1..Len(images) : HasNoKey(images[p]) /\ Key(images[p]) = 0

RaisedOnIdWithoutNumber ==
    /\ pc = "raised"
    /\ \A p \in 1..Len(html) : "data-order" \notin DOMAIN html[p]
    /\ \E p \in 1..Len(html) : HasNoKey(html[p]) /\ "id" \in DOMAIN html[p]

(* ======================= claims: the pass index ======================= *)

\* the images of pages 1..k
ImagesUpTo(k) == UNION {PageImgs(processed_images[m]) : m \in 1..k}

\* C26: for every image sequence and every combination of the three
\* options, each step of create_pdf makes one page from the next one or two
\* images: page k holds exactly the one or two images that follow those of
\* pages 1..k-1, the pages made so far hold images 1..i, and a successful
\* call ends with i at the sequence length, every image in exactly one
\* page and the pages in increasing order of their images.
Thm_C26 ==
    /\ i <= NumImages
    /\ ppc \in {"pass", "done"} =>
          /\ \A k \in 1..Len(processed_images) :
                LET before == Cardinality(ImagesUpTo(k - 1))
                IN  \/ PageImgs(processed_images[k]) = {before + 1}
                    \/ PageImgs(processed_images[k]) = {before + 1, before + 2}
          /\ ImagesUpTo(Len(processed_images)) = 1..i
    /\ PdfSucceeded =>
          /\ i = NumImages
          /\ \A n \in 1..NumImages :
                Cardinality({k \in 1..Len(processed_images) :
                                n \in PageImgs(processed_images[k])}) = 1

\* every step that makes a page moves the index up by one or by two, and by
\* as many as the page has images; no other step moves it
IndexAdvancesWithPage ==
    [][IF Len(processed_images') = Len(processed_images) + 1
       THEN /\ i' - i \in {1, 2}
            /\ i' - i = Cardinality(PageImgs(processed_images'[Len(processed_images')]))
       ELSE i' = i]_vars

Witness_C26 ==
    /\ PdfSucceeded
    /\ add_buffer /\ combine_portraits /\ reverse_order
    /\ NumImages = 5
    /\ Len(processed_images) = 4
    /\ \E k \in 2..4 : Cardinality(PageImgs(processed_images[k])) = 2
    /\ \E k \in 2..4 : processed_images[k].kind = "raw"

====
